---- MODULE Spec2Model ----
(***************************************************************************)
(* Verification model of the NatureDSP engine                              *)
(* (src/src/dsp/NatureDSP_Pure_Impl.cpp): the voice pool, the event        *)
(* dispatcher, the per-sample envelope, the parameter store, the preset    *)
(* text, the reverb's write cursor and what process leaves in the caller's *)
(* buffers; and of the last-error record of the C wrapper                  *)
(* (src/plugins/dsp/src/ffi/KaneMarcoFFI.cpp).                             *)
(*                                                                         *)
(* Floating point values in [0,1] are fixed point: amplitudes, rates and   *)
(* velocities in units of 1/AmpOne, parameters in units of 1/ParamOne,     *)
(* samples in units of 1/SampleOne. Voice indices are 1..MAX_VOICES (index *)
(* 0 of the source is index 1) and 0 stands for the null pointer. The      *)
(* signal of the synthesis modules is an input of process: their           *)
(* oscillators and filters are not part of the state. The reverb's delay   *)
(* lines hold one value each, as ReverbState::process uses them.           *)
(***************************************************************************)
EXTENDS Integers, FiniteSets, Sequences, TLC

\* ------------------------------------------------------------------ bounds
\* Size of the voice pool (the header's MAX_VOICES, scaled down).
MAX_VOICES == 2
\* Fixed-point unit of amplitude, rates and velocity: AmpOne stands for 1.0f.
AmpOne == 3
\* Fixed-point unit of the four parameters: ParamOne stands for 1.0f.
ParamOne == 2
\* Largest numSamples handed to process.
MaxBlock == 2

VoiceIds == 1..MAX_VOICES

\* Notes the environment plays in Spec: one more than the pool holds, across
\* the Water/Wind boundary of the routing table.
Notes == {41 + i : i \in 0..MAX_VOICES}
\* Every note value checked against the routing table.
AllNotes == 0..127
Velocities == {AmpOne}
\* Envelope constants a voice can be built with (all >= 0, sustain in [0,1]):
\* no movement, unit steps that land on the bounds, steps that overshoot.
Rates == {0, 1, AmpOne - 1}
SustainLevels == {0, AmpOne \div 2, AmpOne}
\* The envelope constants of Spec, whose subject is the voice pool: steps
\* that take a voice through its whole life in a few samples.
SpecRates == {AmpOne - 1}
SpecSustainLevels == {AmpOne \div 2}
\* Values a caller hands to setParameter: below, inside and above [0,1].
ParamInputs == {-1, 1, ParamOne + 1}
UnknownId == "unknown"
\* The parameter events of Spec, whose subject is the voice pool.
SpecParamIds == {"PARAM_MASTER_LEVEL", UnknownId}
SpecParamInputs == {ParamOne + 1}
ParamIds == {"PARAM_MASTER_LEVEL", "PARAM_REVERB_MIX", "PARAM_REVERB_ROOM_SIZE",
             "PARAM_REVERB_DAMPING"}
\* prepare's arguments in Spec and EnvSpec: a sample rate that is rejected
\* and one that is accepted.
SampleRates == {0, 1}
BlockSizes == {1}
\* prepare's arguments in LifecycleSpec: negative, zero and two positive
\* values of each.
PrepareInputs == {0 - 1, 0, 1, 2}
\* Length of the reverb ring (65536 in ReverbState::process), scaled down.
RingSize == 2
\* Channels of a stereo buffer pair and the sample values a caller leaves in
\* it: silence or one full-scale unit (a multiple of ParamOne on which the
\* master and wet/dry products stay exact).
Channels == {1, 2}
SampleOne == ParamOne * ParamOne
ClearedBuffers(n) == [ch \in Channels |-> [i \in 1..n |-> 0]]
FullBuffers(n) == [ch \in Channels |-> [i \in 1..n |-> SampleOne]]
\* What one mixing voice adds to each sample: nothing, or a fixed unit.
SilentSynth == [i \in VoiceIds |-> 0]
UnitSynth == [i \in VoiceIds |-> SampleOne]
\* The FFI's macro slots: macroIndex 0..7.
MacroCount == 8
\* The reverb's parallel comb filters (8 in ReverbState), scaled down.
NumCombs == 2
CombIds == 1..NumCombs
ReverbZero == [j \in CombIds |-> 0]
MacroIds == 0..(MacroCount - 1)
\* The host's threads: the audio callback and the message thread.
Threads == {"audio", "control"}

VARIABLES voices, activeVoiceCount, masterLevel, reverbMix, reverbRoomSize,
          reverbDamping, sampleRate, blockSize, writeIndex, delayLines,
          dampingFilters,
          jsonBuffer, savedParams, lastError, macros, errorRecorded,
          dspLock, inCore, lastOp

vars == <<voices, activeVoiceCount, masterLevel, reverbMix, reverbRoomSize,
          reverbDamping, sampleRate, blockSize, writeIndex, delayLines,
          dampingFilters,
          jsonBuffer, savedParams, lastError, macros, errorRecorded,
          dspLock, inCore, lastOp>>
params == <<masterLevel, reverbMix, reverbRoomSize, reverbDamping>>
config == <<sampleRate, blockSize>>
\* The ReverbState member.
reverb == <<writeIndex, delayLines, dampingFilters>>
\* The NatureDSP object.
engine == <<voices, activeVoiceCount, params, config, reverb>>
\* The NaturePluginProcessor around an engine: the owner of its dspLock and
\* the call of its own each host thread is inside of ("" for none).
processor == <<dspLock, inCore>>
\* What lives outside the engine: the caller's preset buffer (with the
\* parameter values of the engine that saved into it), the FFI instance and
\* the plugin processor.
outer == <<jsonBuffer, savedParams, lastError, macros, errorRecorded, processor>>

\* ------------------------------------------------------- pure helpers
clamp(x, lo, hi) == IF x < lo THEN lo ELSE IF x > hi THEN hi ELSE x

\* NoteCategory with the Water/Wind boundary off by one.
NoteCategoryOffByOne(note) ==
    IF note >= 36 /\ note < 48 THEN (IF note <= 42 THEN "Water" ELSE "Wind")
    ELSE IF note >= 48 /\ note < 60 THEN (IF note < 54 THEN "Insect" ELSE "Amphibian")
    ELSE IF note >= 60 /\ note < 72 THEN (IF note < 66 THEN "Bird" ELSE "Mammal")
    ELSE "Water"

\* handleEvent, NOTE_ON: the static routing table (category).
NoteCategory(note) ==
    IF note >= 36 /\ note < 48 THEN (IF note < 42 THEN "Water" ELSE "Wind")
    ELSE IF note >= 48 /\ note < 60 THEN (IF note < 54 THEN "Insect" ELSE "Amphibian")
    ELSE IF note >= 60 /\ note < 72 THEN (IF note < 66 THEN "Bird" ELSE "Mammal")
    ELSE "Water"

\* NoteSoundIndex that counts from the start of the 12-note range.
NoteSoundIndexFromRange(note) ==
    IF note >= 36 /\ note < 48 THEN note - 36
    ELSE IF note >= 48 /\ note < 60 THEN note - 48
    ELSE IF note >= 60 /\ note < 72 THEN note - 60
    ELSE 0

\* handleEvent, NOTE_ON: the static routing table (sound index).
NoteSoundIndex(note) ==
    IF note >= 36 /\ note < 48 THEN (IF note < 42 THEN note - 36 ELSE note - 42)
    ELSE IF note >= 48 /\ note < 60 THEN (IF note < 54 THEN note - 48 ELSE note - 54)
    ELSE IF note >= 60 /\ note < 72 THEN (IF note < 66 THEN note - 60 ELSE note - 66)
    ELSE 0

\* A VoiceState as the constructor builds it; r carries the envelope constants.
DefaultVoice(r) ==
    [active |-> FALSE, phase |-> "Idle", amplitude |-> 0, midiNote |-> 0,
     velocity |-> 0, category |-> "Water", soundIndex |-> 0,
     attackRate |-> r.attackRate, decayRate |-> r.decayRate,
     sustainLevel |-> r.sustainLevel, releaseRate |-> r.releaseRate]

RateChoices ==
    [attackRate : Rates, decayRate : Rates, sustainLevel : SustainLevels,
     releaseRate : Rates]

SpecRateChoices ==
    [attackRate : SpecRates, decayRate : SpecRates,
     sustainLevel : SpecSustainLevels, releaseRate : SpecRates]

\* First index of S, 0 when S is empty (a loop over voices_ that returns on
\* the first hit, nullptr when it falls through).
FirstOf(S) == IF S = {} THEN 0 ELSE CHOOSE i \in S : \A j \in S : i <= j

\* findVoice that overlooks the voices in Release.
findVoiceSkipRelease(vs, midiNote) ==
    FirstOf({i \in VoiceIds : vs[i].active /\ vs[i].phase # "Release"
                                /\ vs[i].midiNote = midiNote})

\* findVoice(midiNote): first active voice bound to the note, else null.
findVoice(vs, midiNote) ==
    FirstOf({i \in VoiceIds : vs[i].active /\ vs[i].midiNote = midiNote})

\* allocateVoice that gives up (nullptr) when no voice is free or in Release.
allocateVoiceOrNull(vs) ==
    IF \E i \in VoiceIds : ~vs[i].active
    THEN FirstOf({i \in VoiceIds : ~vs[i].active})
    ELSE FirstOf({i \in VoiceIds : vs[i].active /\ vs[i].phase = "Release"})

\* allocateVoice without the scan for a voice in Release.
allocateVoiceNoReleaseScan(vs) ==
    IF \E i \in VoiceIds : ~vs[i].active
    THEN FirstOf({i \in VoiceIds : ~vs[i].active})
    ELSE 1

\* allocateVoice(): first free voice, else first voice in Release, else
\* voices_[0].
allocateVoice(vs) ==
    IF \E i \in VoiceIds : ~vs[i].active
    THEN FirstOf({i \in VoiceIds : ~vs[i].active})
    ELSE IF \E i \in VoiceIds : vs[i].active /\ vs[i].phase = "Release"
    THEN FirstOf({i \in VoiceIds : vs[i].active /\ vs[i].phase = "Release"})
    ELSE 1

\* EnvelopeStep whose Attack branch changes phase without clamping.
EnvelopeStepNoAttackClamp(v) ==
    CASE v.phase = "Attack" ->
            IF v.amplitude + v.attackRate >= AmpOne
            THEN [v EXCEPT !.amplitude = v.amplitude + v.attackRate, !.phase = "Decay"]
            ELSE [v EXCEPT !.amplitude = v.amplitude + v.attackRate]
      [] v.phase = "Decay" ->
            IF v.amplitude - v.decayRate <= v.sustainLevel
            THEN [v EXCEPT !.amplitude = v.sustainLevel, !.phase = "Sustain"]
            ELSE [v EXCEPT !.amplitude = v.amplitude - v.decayRate]
      [] v.phase = "Sustain" -> v
      [] v.phase = "Release" ->
            IF v.amplitude - v.releaseRate <= 0
            THEN [v EXCEPT !.amplitude = 0, !.phase = "Idle"]
            ELSE [v EXCEPT !.amplitude = v.amplitude - v.releaseRate]
      [] OTHER -> v

\* EnvelopeStep whose Release branch clamps at 0 but never leaves Release.
EnvelopeStepStuckRelease(v) ==
    CASE v.phase = "Attack" ->
            IF v.amplitude + v.attackRate >= AmpOne
            THEN [v EXCEPT !.amplitude = AmpOne, !.phase = "Decay"]
            ELSE [v EXCEPT !.amplitude = v.amplitude + v.attackRate]
      [] v.phase = "Decay" ->
            IF v.amplitude - v.decayRate <= v.sustainLevel
            THEN [v EXCEPT !.amplitude = v.sustainLevel, !.phase = "Sustain"]
            ELSE [v EXCEPT !.amplitude = v.amplitude - v.decayRate]
      [] v.phase = "Sustain" -> v
      [] v.phase = "Release" ->
            IF v.amplitude - v.releaseRate <= 0
            THEN [v EXCEPT !.amplitude = 0]
            ELSE [v EXCEPT !.amplitude = v.amplitude - v.releaseRate]
      [] OTHER -> v

\* EnvelopeStep whose Decay branch changes phase without landing on the
\* sustain level.
EnvelopeStepDecayOvershoots(v) ==
    CASE v.phase = "Attack" ->
            IF v.amplitude + v.attackRate >= AmpOne
            THEN [v EXCEPT !.amplitude = AmpOne, !.phase = "Decay"]
            ELSE [v EXCEPT !.amplitude = v.amplitude + v.attackRate]
      [] v.phase = "Decay" ->
            IF v.amplitude - v.decayRate <= v.sustainLevel
            THEN [v EXCEPT !.amplitude = v.amplitude - v.decayRate, !.phase = "Sustain"]
            ELSE [v EXCEPT !.amplitude = v.amplitude - v.decayRate]
      [] v.phase = "Sustain" -> v
      [] v.phase = "Release" ->
            IF v.amplitude - v.releaseRate <= 0
            THEN [v EXCEPT !.amplitude = 0, !.phase = "Idle"]
            ELSE [v EXCEPT !.amplitude = v.amplitude - v.releaseRate]
      [] OTHER -> v

\* One iteration of updateVoiceEnvelope's sample loop.
EnvelopeStep(v) ==
    CASE v.phase = "Attack" ->
            IF v.amplitude + v.attackRate >= AmpOne
            THEN [v EXCEPT !.amplitude = AmpOne, !.phase = "Decay"]
            ELSE [v EXCEPT !.amplitude = v.amplitude + v.attackRate]
      [] v.phase = "Decay" ->
            IF v.amplitude - v.decayRate <= v.sustainLevel
            THEN [v EXCEPT !.amplitude = v.sustainLevel, !.phase = "Sustain"]
            ELSE [v EXCEPT !.amplitude = v.amplitude - v.decayRate]
      [] v.phase = "Sustain" -> v
      [] v.phase = "Release" ->
            IF v.amplitude - v.releaseRate <= 0
            THEN [v EXCEPT !.amplitude = 0, !.phase = "Idle"]
            ELSE [v EXCEPT !.amplitude = v.amplitude - v.releaseRate]
      [] OTHER -> v

RECURSIVE EnvelopeLoop(_, _)
EnvelopeLoop(v, n) == IF n <= 0 THEN v ELSE EnvelopeLoop(EnvelopeStep(v), n - 1)

\* updateVoiceEnvelope(voice, numSamples).
updateVoiceEnvelope(v, numSamples) ==
    IF ~v.active THEN v ELSE EnvelopeLoop(v, numSamples)

\* ProcessVoice without the "free voice if release finished" step.
ProcessVoiceNoFree(v, numSamples) ==
    IF v.active THEN updateVoiceEnvelope(v, numSamples) ELSE v

\* Body of process' voice loop for one voice: envelope, then the voice is
\* freed when the envelope left it Idle.
ProcessVoice(v, numSamples) ==
    IF v.active
    THEN LET u == updateVoiceEnvelope(v, numSamples)
         IN IF u.phase = "Idle" THEN [u EXCEPT !.active = FALSE] ELSE u
    ELSE v

\* The voices whose slot process frees (one fetch_sub(1) each).
Freed(vs, numSamples) ==
    {i \in VoiceIds : vs[i].active /\ ~ProcessVoice(vs[i], numSamples).active}

\* ------------------------------------------------------------ actions
\* What the last call was: its kind, its note, the branch it took, the float
\* it returned (ret) and, for process, its numChannels (ret), the caller's
\* buffers before (pre) and after (out) the call, what the comb lines read
\* and wrote per sample (reads, writes), the channels it wrote to (touched)
\* and the MIDI handed in with the block (midi).
Op(op, note, path) ==
    [op |-> op, note |-> note, path |-> path, ret |-> 0, pre |-> <<>>, out |-> <<>>,
     reads |-> <<>>, writes |-> <<>>, touched |-> {}, midi |-> <<>>]

\* The engine as the constructor leaves it, every voice built with the same
\* envelope constants, one of R; no preset text yet, and an FFI instance as
\* nature_create leaves it.
Constructed(R) ==
    /\ \E r \in R : voices = [i \in VoiceIds |-> DefaultVoice(r)]
    /\ activeVoiceCount = 0
    /\ masterLevel = ParamOne
    /\ reverbMix = 0
    /\ reverbRoomSize = ParamOne \div 2
    /\ reverbDamping = ParamOne \div 2
    /\ sampleRate = 1
    /\ blockSize = 1
    /\ writeIndex = 0
    /\ delayLines = ReverbZero
    /\ dampingFilters = ReverbZero
    /\ jsonBuffer = <<>>
    /\ savedParams = <<>>
    /\ lastError = ""
    /\ macros = [m \in MacroIds |-> 0]
    /\ errorRecorded = FALSE
    /\ dspLock = ""
    /\ inCore = [t \in Threads |-> ""]
    /\ lastOp = Op("construct", 0, "-")

Init == Constructed(SpecRateChoices)

\* PanicVoices that leaves the amplitudes as they are.
PanicVoicesKeepAmplitude(vs) ==
    [i \in VoiceIds |-> [vs[i] EXCEPT !.active = FALSE, !.phase = "Idle"]]

\* panic(): every voice inactive, Idle, silent; the count stored as 0.
PanicVoices(vs) ==
    [i \in VoiceIds |-> [vs[i] EXCEPT !.active = FALSE, !.phase = "Idle",
                                      !.amplitude = 0]]

panic ==
    /\ voices' = PanicVoices(voices)
    /\ activeVoiceCount' = 0
    /\ lastOp' = Op("panic", 0, "-")
    /\ UNCHANGED <<params, config, reverb, outer>>

\* ReverbState::reset(): the cursor back at 0 (with the delay lines and the
\* damping filters zeroed).
ReverbReset == 0

\* reset(): the same voice loop and store as panic, then the synthesis
\* modules and the reverb.
resetEngine ==
    /\ voices' = [i \in VoiceIds |-> [voices[i] EXCEPT !.active = FALSE,
                                          !.phase = "Idle", !.amplitude = 0]]
    /\ activeVoiceCount' = 0
    /\ writeIndex' = ReverbReset
    /\ delayLines' = ReverbZero
    /\ dampingFilters' = ReverbZero

reset ==
    /\ resetEngine
    /\ lastOp' = Op("reset", 0, "-")
    /\ UNCHANGED <<params, config, outer>>

\* prepare that stores its arguments before it validates them.
prepareStoresFirst(sr, bs) ==
    /\ lastOp' = [Op("prepare", sr, IF sr <= 0 \/ bs <= 0 THEN "rejected" ELSE "ok")
                  EXCEPT !.ret = bs]
    /\ sampleRate' = sr
    /\ blockSize' = bs
    /\ IF sr <= 0 \/ bs <= 0
       THEN UNCHANGED <<voices, activeVoiceCount, params, reverb, outer>>
       ELSE /\ voices' = [i \in VoiceIds |-> [voices[i] EXCEPT !.active = FALSE,
                                                  !.phase = "Idle", !.amplitude = 0]]
            /\ activeVoiceCount' = 0
            /\ writeIndex' = ReverbReset
            /\ delayLines' = ReverbZero
            /\ dampingFilters' = ReverbZero
            /\ UNCHANGED <<params, outer>>

\* prepare(sr, bs): rejected without effect for a non-positive argument,
\* otherwise stores both, initialises the reverb and resets.
prepareEngine(sr, bs) ==
    IF sr <= 0 \/ bs <= 0
    THEN UNCHANGED <<voices, activeVoiceCount, params, config, reverb>>
    ELSE /\ sampleRate' = sr
         /\ blockSize' = bs
         /\ resetEngine
         /\ UNCHANGED params

prepare(sr, bs) ==
    /\ lastOp' = [Op("prepare", sr, IF sr <= 0 \/ bs <= 0 THEN "rejected" ELSE "ok")
                  EXCEPT !.ret = bs]
    /\ prepareEngine(sr, bs)
    /\ UNCHANGED outer

\* ReverbState::process, "Advance write index", without the wrap.
AdvanceWriteIndexNoWrap(w) == w + 1

\* ReverbState::process, "Advance write index": one sample.
AdvanceWriteIndex(w) == (w + 1) % RingSize

\* ReverbState::process: the cursor after the sample loop.
RECURSIVE ReverbCursor(_, _)
ReverbCursor(w, numSamples) ==
    IF numSamples <= 0 THEN w ELSE ReverbCursor(AdvanceWriteIndex(w), numSamples - 1)

\* The sound types each synthesis module dispatches on, in the order of its
\* switch; the enumerator of position k has the value k - 1.
SoundTypes(category) ==
    CASE category = "Water"     -> <<"Rain", "Stream", "Ocean", "Waterfall", "Drips">>
      [] category = "Wind"      -> <<"Breeze", "Gusts", "Whistle", "Storm">>
      [] category = "Insect"    -> <<"Cricket", "Cicada", "Bee", "Fly", "Mosquito", "Swarm">>
      [] category = "Bird"      -> <<"Songbird", "Owl", "Crow", "Flock">>
      [] category = "Amphibian" -> <<"Frog", "Toad", "TreeFrog">>
      [] category = "Mammal"    -> <<"Wolf", "Coyote", "Deer", "Fox">>

\* The module's process: the generator its switch reaches for the value
\* soundType, none when no case matches.
Generator(category, soundType) ==
    IF soundType \in 0..(Len(SoundTypes(category)) - 1)
    THEN SoundTypes(category)[soundType + 1]
    ELSE "none"

\* generateSound without the clamp.
generateSoundNoClamp(v) == Generator(v.category, v.soundIndex)

\* generateWaterSound .. generateMammalSound: the cast of soundIndex, the
\* clamp to the module's first sound type when it lies beyond the last one,
\* and the generator the module then runs.
generateSound(v) ==
    LET last == Len(SoundTypes(v.category)) - 1
        soundType == IF v.soundIndex > last THEN 0 ELSE v.soundIndex
    IN Generator(v.category, soundType)

\* The voices process mixes into the buffers: active ones whose amplitude is
\* above 0 once their envelope has run (mixVoiceToOutput returns early
\* otherwise).
MixingVoices(vs, numSamples) ==
    {i \in VoiceIds : vs[i].active /\ updateVoiceEnvelope(vs[i], numSamples).amplitude > 0}

RECURSIVE SumOver(_, _)
SumOver(S, f) ==
    IF S = {} THEN 0
    ELSE LET i == CHOOSE j \in S : TRUE IN f[i] + SumOver(S \ {i}, f)

\* ReverbState::process, "Mix wet/dry" of one sample.
WetDry(x, wet, mix) == (x * (ParamOne - mix) + wet * mix) \div ParamOne

\* ReverbState::init: the delay of each comb line in samples, the sample
\* rate counted in kHz (static_cast<int>(sr * 0.030) .. (sr * 0.087)).
DelayMillis == <<30, 37, 47, 53, 61, 71, 79, 87>>
delayTimes(sr) == [j \in CombIds |-> sr * DelayMillis[j]]

\* The values f[1] .. f[n] as a tuple, and the element of a one-element set.
RECURSIVE Tuple(_, _)
Tuple(f, n) == IF n = 0 THEN <<>> ELSE Append(Tuple(f, n - 1), f[n])
The(S) == CHOOSE x \in S : TRUE

\* ReverbState::process, one sample of one comb line: the value read, the
\* damping filter after "Apply damping filter" (damp = damping * 0.5) and
\* the value written back (feedback = roomSize * 0.5).
CombRead(line) == line
CombFilter(line, filter, damping) ==
    (CombRead(line) * (2 * ParamOne - damping) + filter * damping) \div (2 * ParamOne)
CombWrite(input, filtered, roomSize) ==
    input + (filtered * roomSize) \div (2 * ParamOne)

\* ReverbState::process, "Process through parallel comb filters": the loop
\* over the lines up to line j. read, filtered and written list what each
\* line read, its damping filter and what was written back; output is the
\* sum of the values read.
RECURSIVE CombBank(_, _, _, _, _, _)
CombBank(lines, filters, input, roomSize, damping, j) ==
    IF j = 0 THEN [read |-> <<>>, filtered |-> <<>>, written |-> <<>>, output |-> 0]
    ELSE LET prev == CombBank(lines, filters, input, roomSize, damping, j - 1)
             f == CombFilter(lines[j], filters[j], damping)
         IN [read |-> Append(prev.read, CombRead(lines[j])),
             filtered |-> Append(prev.filtered, f),
             written |-> Append(prev.written, CombWrite(input, f, roomSize)),
             output |-> prev.output + CombRead(lines[j])]

\* ReverbState::process, sample i of the loop. st holds the delay lines, the
\* damping filters and the two buffers; reads and writes list, per sample,
\* what the lines read and wrote.
ReverbSample(st, i, mix, roomSize, damping) ==
    LET bank == CombBank(st.delayLines, st.dampingFilters,
                         (st.L[i] + st.R[i]) \div 2, roomSize, damping, NumCombs)
        output == bank.output \div NumCombs
    IN [delayLines |-> bank.written,
        dampingFilters |-> bank.filtered,
        L |-> [st.L EXCEPT ![i] = WetDry(st.L[i], output, mix)],
        R |-> [st.R EXCEPT ![i] = WetDry(st.R[i], output, mix)],
        reads |-> Append(st.reads, bank.read),
        writes |-> Append(st.writes, bank.written)]

\* ReverbState::process, the sample loop from sample i on.
RECURSIVE ReverbLoop(_, _, _, _, _, _)
ReverbLoop(st, i, numSamples, mix, roomSize, damping) ==
    IF i > numSamples THEN st
    ELSE ReverbLoop(ReverbSample(st, i, mix, roomSize, damping),
                    i + 1, numSamples, mix, roomSize, damping)

\* process up to the master level: channels below numChannels are cleared,
\* every mixing voice whose module has a generator for its sound type adds
\* its signal synth[voice], and the master level scales the sum.
Mastered(outs, numChannels, numSamples, vs, master, synth) ==
    LET sounding == {v \in MixingVoices(vs, numSamples) : generateSound(vs[v]) # "none"}
        scaled == (SumOver(sounding, synth) * master) \div ParamOne
    IN [ch \in DOMAIN outs |->
           Tuple([i \in DOMAIN outs[ch] |->
                     IF ch <= numChannels THEN scaled ELSE outs[ch][i]],
                 Len(outs[ch]))]

\* reverb_.process(outputs[0], outputs[1], numSamples, ...) at the end of
\* process: the reverb's state and the two buffers after the call.
ReverbRun(outs, numChannels, numSamples, vs, master, mix, roomSize, damping, lines, filters, synth) ==
    The({ReverbLoop([delayLines |-> lines, dampingFilters |-> filters,
                     L |-> in[1], R |-> in[2], reads |-> <<>>, writes |-> <<>>],
                    1, numSamples, mix, roomSize, damping)
         : in \in {Mastered(outs, numChannels, numSamples, vs, master, synth)}})

\* What process leaves in the caller's buffers: outputs[0] and outputs[1]
\* as the reverb rev returned them.
ProcessOutput(outs, rev) == [ch \in DOMAIN outs |-> IF ch = 1 THEN rev.L ELSE rev.R]

\* The channel buffers process reads or writes: those below numChannels in
\* the memset, the modules and the master loop, outputs[0] and outputs[1]
\* in each sample the reverb runs over.
Touched(numChannels, numSamples) ==
    {ch \in Channels : ch <= numChannels} \cup (IF numSamples > 0 THEN {1, 2} ELSE {})

\* process(outputs, numChannels, numSamples) on an engine whose voices and
\* count are vs and count. synth stands for what the synthesis modules
\* produce during the call; op and midi name the caller's operation in lastOp.
processFrom(op, midi, vs, count, outputs, numChannels, numSamples, synth) ==
    \E rev \in {ReverbRun(outputs, numChannels, numSamples, vs, masterLevel, reverbMix,
                          reverbRoomSize, reverbDamping, delayLines, dampingFilters, synth)},
       freed \in {Cardinality(Freed(vs, numSamples))} :
       /\ voices' = [i \in VoiceIds |-> ProcessVoice(vs[i], numSamples)]
       /\ activeVoiceCount' = count - freed
       /\ writeIndex' = ReverbCursor(writeIndex, numSamples)
       /\ delayLines' = rev.delayLines
       /\ dampingFilters' = rev.dampingFilters
       /\ lastOp' = [Op(op, 0, IF freed > 0 THEN "freed" ELSE "-")
                     EXCEPT !.ret = numChannels, !.pre = outputs, !.out = ProcessOutput(outputs, rev),
                            !.reads = rev.reads, !.writes = rev.writes,
                            !.touched = Touched(numChannels, numSamples), !.midi = midi]
process(outputs, numChannels, numSamples, synth) ==
    /\ processFrom("process", <<>>, voices, activeVoiceCount,
                   outputs, numChannels, numSamples, synth)
    /\ UNCHANGED <<params, config, outer>>

\* The host of Spec and EnvSpec: stereo buffers it has cleared, and voices
\* too quiet to leave anything in them.
HostProcess(numSamples) ==
    process(ClearedBuffers(numSamples), Cardinality(Channels), numSamples, SilentSynth)

\* NoteOnVoice that allocates without looking for a voice on the note.
NoteOnVoiceNoLookup(vs, note) == allocateVoice(vs)

\* handleEvent NOTE_ON: the voice the event is given (0 when none).
NoteOnVoice(vs, note) ==
    IF findVoice(vs, note) # 0 THEN findVoice(vs, note) ELSE allocateVoice(vs)

\* isNewVoice that counts every allocation, a stolen voice included.
isNewVoiceCountsSteal(vs, note) ==
    /\ findVoice(vs, note) = 0
    /\ allocateVoice(vs) # 0

\* handleEvent NOTE_ON: isNewVoice.
isNewVoice(vs, note) ==
    /\ findVoice(vs, note) = 0
    /\ allocateVoice(vs) # 0
    /\ ~vs[allocateVoice(vs)].active

\* handleEvent NOTE_ON: what the event writes into its voice.
StartVoice(v, note, velocity) ==
    [v EXCEPT !.active = TRUE, !.midiNote = note, !.velocity = velocity,
              !.category = NoteCategory(note), !.soundIndex = NoteSoundIndex(note),
              !.phase = "Attack", !.amplitude = 0]

\* The branch a NOTE_ON takes, recorded in lastOp for observation only.
NoteOnPath(vs, note) ==
    IF findVoice(vs, note) # 0 THEN "retrigger"
    ELSE IF allocateVoice(vs) = 0 THEN "null"
    ELSE IF ~vs[allocateVoice(vs)].active THEN "free"
    ELSE IF vs[allocateVoice(vs)].phase = "Release" THEN "release"
    ELSE "forced"

NoteOn(note, velocity) ==
    /\ lastOp' = Op("NoteOn", note, NoteOnPath(voices, note))
    /\ LET k == NoteOnVoice(voices, note)
       IN IF k # 0
          THEN /\ activeVoiceCount' = IF isNewVoice(voices, note)
                                      THEN activeVoiceCount + 1
                                      ELSE activeVoiceCount
               /\ voices' = [voices EXCEPT ![k] = StartVoice(voices[k], note, velocity)]
          ELSE UNCHANGED <<voices, activeVoiceCount>>
    /\ UNCHANGED <<params, config, reverb, outer>>

\* ReleaseVoice that also silences the voice at once.
ReleaseVoiceSilenced(v) ==
    IF v.active THEN [v EXCEPT !.phase = "Release", !.amplitude = 0] ELSE v

\* handleEvent NOTE_OFF: what the event writes into the voice it found.
ReleaseVoice(v) == IF v.active THEN [v EXCEPT !.phase = "Release"] ELSE v

NoteOff(note) ==
    /\ lastOp' = Op("NoteOff", note,
                    IF findVoice(voices, note) # 0 THEN "found" ELSE "none")
    /\ LET k == findVoice(voices, note)
       IN IF k # 0
          THEN voices' = [voices EXCEPT ![k] = ReleaseVoice(voices[k])]
          ELSE UNCHANGED voices
    /\ UNCHANGED <<activeVoiceCount, params, config, reverb, outer>>

\* getParameter(paramId): string lookup, 0 for an unknown id.
getParameter(paramId) ==
    IF paramId = "PARAM_MASTER_LEVEL" THEN masterLevel
    ELSE IF paramId = "PARAM_REVERB_MIX" THEN reverbMix
    ELSE IF paramId = "PARAM_REVERB_ROOM_SIZE" THEN reverbRoomSize
    ELSE IF paramId = "PARAM_REVERB_DAMPING" THEN reverbDamping
    ELSE 0

\* A call of getParameter: const, the value goes to the caller.
getParameterCall(paramId) ==
    /\ lastOp' = [Op("getParameter", 0, paramId) EXCEPT !.ret = getParameter(paramId)]
    /\ UNCHANGED <<engine, outer>>

\* setParameter that stores the value as given.
setParameterUnclamped(paramId, value) ==
    /\ masterLevel' = IF paramId = "PARAM_MASTER_LEVEL" THEN value ELSE masterLevel
    /\ reverbMix' = IF paramId = "PARAM_REVERB_MIX" THEN value ELSE reverbMix
    /\ reverbRoomSize' = IF paramId = "PARAM_REVERB_ROOM_SIZE"
                         THEN value ELSE reverbRoomSize
    /\ reverbDamping' = IF paramId = "PARAM_REVERB_DAMPING" THEN value ELSE reverbDamping

\* setParameter whose unknown-id fall-through lands on the master level.
setParameterDefaultsToMaster(paramId, value) ==
    /\ masterLevel' = IF paramId = "PARAM_MASTER_LEVEL" \/ paramId \notin ParamIds
                      THEN clamp(value, 0, ParamOne) ELSE masterLevel
    /\ reverbMix' = IF paramId = "PARAM_REVERB_MIX"
                    THEN clamp(value, 0, ParamOne) ELSE reverbMix
    /\ reverbRoomSize' = IF paramId = "PARAM_REVERB_ROOM_SIZE"
                         THEN clamp(value, 0, ParamOne) ELSE reverbRoomSize
    /\ reverbDamping' = IF paramId = "PARAM_REVERB_DAMPING"
                        THEN clamp(value, 0, ParamOne) ELSE reverbDamping

\* setParameter(paramId, value): clamp on set, unknown ids ignored.
setParameter(paramId, value) ==
    /\ masterLevel' = IF paramId = "PARAM_MASTER_LEVEL"
                      THEN clamp(value, 0, ParamOne) ELSE masterLevel
    /\ reverbMix' = IF paramId = "PARAM_REVERB_MIX"
                    THEN clamp(value, 0, ParamOne) ELSE reverbMix
    /\ reverbRoomSize' = IF paramId = "PARAM_REVERB_ROOM_SIZE"
                         THEN clamp(value, 0, ParamOne) ELSE reverbRoomSize
    /\ reverbDamping' = IF paramId = "PARAM_REVERB_DAMPING"
                        THEN clamp(value, 0, ParamOne) ELSE reverbDamping

\* A direct call of setParameter.
setParameterCall(paramId, value) ==
    /\ setParameter(paramId, value)
    /\ lastOp' = [Op("setParameter", 0, paramId) EXCEPT !.ret = value]
    /\ UNCHANGED <<voices, activeVoiceCount, config, reverb, outer>>

\* handleEvent PARAM_CHANGE.
ParamChange(paramId, value) ==
    /\ setParameter(paramId, value)
    /\ lastOp' = [Op("ParamChange", 0, paramId) EXCEPT !.ret = value]
    /\ UNCHANGED <<voices, activeVoiceCount, config, reverb, outer>>

\* handleEvent RESET.
ResetEvent ==
    /\ voices' = PanicVoices(voices)
    /\ activeVoiceCount' = 0
    /\ lastOp' = Op("Reset", 0, "-")
    /\ UNCHANGED <<params, config, reverb, outer>>

\* handleEvent PITCH_BEND, CHANNEL_PRESSURE, CONTROL_CHANGE, PROGRAM_CHANGE:
\* the switch's default branch.
IgnoredKinds == {"PitchBend", "ChannelPressure", "ControlChange", "ProgramChange"}
IgnoredEvent(kind) ==
    /\ kind \in IgnoredKinds
    /\ lastOp' = Op("ignored", 0, "-")
    /\ UNCHANGED <<engine, outer>>

handleEvent ==
    \/ \E n \in Notes, vel \in Velocities : NoteOn(n, vel)
    \/ \E n \in Notes : NoteOff(n)
    \/ \E id \in SpecParamIds, x \in SpecParamInputs : ParamChange(id, x)
    \/ ResetEvent
    \/ \E kind \in IgnoredKinds : IgnoredEvent(kind)

Next ==
    \/ handleEvent
    \/ \E k \in 0..MaxBlock : HostProcess(k)
    \/ panic
    \/ reset
    \/ \E sr \in SampleRates, bs \in BlockSizes : prepare(sr, bs)

Spec == Init /\ [][Next]_vars

\* A player that holds one note at a time, over every note value: the
\* routing table is exercised on the whole note range.
RouteNext ==
    \/ \E n \in AllNotes, vel \in Velocities : activeVoiceCount = 0 /\ NoteOn(n, vel)
    \/ ResetEvent

RouteSpec == Init /\ [][RouteNext]_vars

\* The routing player under a host that calls process: every note is
\* mixed.
MixNext ==
    \/ RouteNext
    \/ \E k \in 1..MaxBlock :
          process(ClearedBuffers(k), Cardinality(Channels), k, UnitSynth)

MixSpec == Init /\ [][MixNext]_vars

\* A player whose notes rise: each NoteOn is of a note above the note of
\* every active voice, so among the active voices a lower midiNote is an
\* earlier NoteOn.
StealNotes == 41..(42 + MAX_VOICES)
StealNext ==
    \/ \E n \in StealNotes, vel \in Velocities :
          /\ \A i \in VoiceIds : voices[i].active => voices[i].midiNote < n
          /\ NoteOn(n, vel)
    \/ \E n \in StealNotes : NoteOff(n)
    \/ \E k \in 1..MaxBlock : HostProcess(k)

StealSpec == Init /\ [][StealNext]_vars

\* The envelope under every choice of its constants: a player of one note
\* whose host keeps calling process with non-empty blocks.
EnvNotes == {60}
EnvInit == Constructed(RateChoices)
ProcessBlock == \E k \in 1..MaxBlock : HostProcess(k)
EnvNext ==
    \/ \E n \in EnvNotes, vel \in Velocities : NoteOn(n, vel)
    \/ \E n \in EnvNotes : NoteOff(n)
    \/ ProcessBlock
    \/ ResetEvent
    \/ reset
    \/ \E sr \in SampleRates, bs \in BlockSizes : prepare(sr, bs)

EnvSpec == EnvInit /\ [][EnvNext]_vars /\ WF_vars(ProcessBlock)

\* ----------------------------------------------------------- presets
\* A preset text is a sequence of tokens: literals (braces, commas, blanks,
\* the quoted field names with their colon) and decimal numbers, a number
\* being its value in units of 10^-Decimals.
Lit(s) == [t |-> "lit", s |-> s, n |-> 0]
Num(n) == [t |-> "num", s |-> "", n |-> n]
Blank == Lit(" ")
\* The field names of savePreset's format, in its order.
FieldKeys == <<"\"master_level\":", "\"reverb_mix\":", "\"reverb_room_size\":",
               "\"reverb_damping\":">>
\* Digits after the point in savePreset's "%.6f".
Decimals == 6
TextOne == 10 ^ Decimals

\* "%.6f" of a parameter value: the nearest multiple of 10^-6.
FormatFloat(v) == (2 * v * TextOne + ParamOne) \div (2 * ParamOne)

\* "%f" of sscanf: the float nearest to the decimal that was read.
ParseFloat(n) == (2 * n * ParamOne + TextOne) \div (2 * TextOne)

\* PresetText with the second and third value in each other's place.
PresetTextSwapped(p) ==
    <<Lit("{"), Lit(FieldKeys[1]), Num(FormatFloat(p[1])), Lit(","),
      Lit(FieldKeys[2]), Num(FormatFloat(p[3])), Lit(","),
      Lit(FieldKeys[3]), Num(FormatFloat(p[2])), Lit(","),
      Lit(FieldKeys[4]), Num(FormatFloat(p[4])), Lit("}")>>

\* savePreset's format applied to the four parameters p.
PresetText(p) ==
    <<Lit("{"), Lit(FieldKeys[1]), Num(FormatFloat(p[1])), Lit(","),
      Lit(FieldKeys[2]), Num(FormatFloat(p[2])), Lit(","),
      Lit(FieldKeys[3]), Num(FormatFloat(p[3])), Lit(","),
      Lit(FieldKeys[4]), Num(FormatFloat(p[4])), Lit("}")>>

\* snprintf into a buffer of size characters: at most size - 1 of them.
Truncated(text, size) ==
    IF size <= 0 THEN <<>>
    ELSE IF Len(text) <= size - 1 THEN text
    ELSE SubSeq(text, 1, size - 1)

\* savePreset(jsonBuffer, jsonBufferSize): true when the whole text fitted.
\* Sizes count tokens.
savePreset(jsonBufferSize) ==
    LET text == PresetText(params)
        written == Len(text)
    IN /\ jsonBuffer' = Truncated(text, jsonBufferSize)
       /\ savedParams' = IF written > 0 /\ written < jsonBufferSize
                         THEN params ELSE <<>>
       /\ lastOp' = Op("savePreset", 0,
                       IF written > 0 /\ written < jsonBufferSize THEN "true" ELSE "false")
       /\ UNCHANGED <<engine, lastError, macros, errorRecorded, processor>>

\* loadPreset's sscanf format: a directive is a literal, white space (any
\* run of blanks, none included) or a %f conversion (which skips blanks).
FmtLit(s) == [d |-> "lit", s |-> s]
FmtSpace == [d |-> "space", s |-> ""]
FmtFloat == [d |-> "float", s |-> ""]
LoadFormat ==
    <<FmtLit("{"), FmtSpace, FmtLit(FieldKeys[1]), FmtFloat, FmtLit(","),
      FmtSpace, FmtLit(FieldKeys[2]), FmtFloat, FmtLit(","),
      FmtSpace, FmtLit(FieldKeys[3]), FmtFloat, FmtLit(","),
      FmtSpace, FmtLit(FieldKeys[4]), FmtFloat, FmtSpace, FmtLit("}")>>

RECURSIVE SkipBlanks(_)
SkipBlanks(text) ==
    IF text # <<>> /\ Head(text) = Blank THEN SkipBlanks(Tail(text)) ELSE text

\* sscanf(text, fmt, ...): the values converted, in order, up to the first
\* directive that does not match; their number is what sscanf returns.
RECURSIVE sscanf(_, _, _)
sscanf(text, fmt, got) ==
    IF fmt = <<>> THEN got
    ELSE LET d == Head(fmt)
             rest == SkipBlanks(text)
         IN CASE d.d = "space" -> sscanf(rest, Tail(fmt), got)
              [] d.d = "lit" ->
                    IF text # <<>> /\ Head(text) = Lit(d.s)
                    THEN sscanf(Tail(text), Tail(fmt), got)
                    ELSE got
              [] OTHER ->
                    IF rest # <<>> /\ Head(rest).t = "num"
                    THEN sscanf(Tail(rest), Tail(fmt), Append(got, Head(rest).n))
                    ELSE got

\* LoadedParams that applies the fields that were read and keeps the locals'
\* defaults for the others.
LoadedParamsPartial(got) ==
    [k \in 1..4 |-> IF k <= Len(got) THEN ParseFloat(got[k]) ELSE params[k]]

\* What a successful loadPreset assigns to the four members.
LoadedParams(got) == [k \in 1..4 |-> ParseFloat(got[k])]

\* loadPreset that assigns whatever sscanf converted, four fields or fewer.
loadPresetEager(jsonData) ==
    LET got == sscanf(jsonData, LoadFormat, <<>>)
    IN /\ lastOp' = Op("loadPreset", 0, IF Len(got) = 4 THEN "true" ELSE "false")
       /\ masterLevel' = LoadedParamsPartial(got)[1]
       /\ reverbMix' = LoadedParamsPartial(got)[2]
       /\ reverbRoomSize' = LoadedParamsPartial(got)[3]
       /\ reverbDamping' = LoadedParamsPartial(got)[4]
       /\ UNCHANGED <<voices, activeVoiceCount, config, reverb, outer>>

\* loadPreset(jsonData): all four fields converted, or nothing assigned.
loadPreset(jsonData) ==
    LET got == sscanf(jsonData, LoadFormat, <<>>)
    IN /\ lastOp' = Op("loadPreset", 0, IF Len(got) = 4 THEN "true" ELSE "false")
       /\ IF Len(got) = 4
          THEN /\ masterLevel' = LoadedParams(got)[1]
               /\ reverbMix' = LoadedParams(got)[2]
               /\ reverbRoomSize' = LoadedParams(got)[3]
               /\ reverbDamping' = LoadedParams(got)[4]
          ELSE UNCHANGED params
       /\ UNCHANGED <<voices, activeVoiceCount, config, reverb, outer>>

\* The caller loads what its preset buffer holds.
LoadBuffer == loadPreset(jsonBuffer)

\* A second engine, newly constructed, takes the place of the first; the
\* caller keeps its buffer.
FreshEngine ==
    /\ voices' = [i \in VoiceIds |-> [voices[i] EXCEPT !.active = FALSE,
                       !.phase = "Idle", !.amplitude = 0, !.midiNote = 0,
                       !.velocity = 0, !.category = "Water", !.soundIndex = 0]]
    /\ activeVoiceCount' = 0
    /\ masterLevel' = ParamOne
    /\ reverbMix' = 0
    /\ reverbRoomSize' = ParamOne \div 2
    /\ reverbDamping' = ParamOne \div 2
    /\ sampleRate' = 1
    /\ blockSize' = 1
    /\ writeIndex' = 0
    /\ delayLines' = ReverbZero
    /\ dampingFilters' = ReverbZero
    /\ lastOp' = Op("construct", 0, "-")
    /\ UNCHANGED outer

\* Texts a caller writes into its buffer by hand. Canonical(p) is the
\* shape savePreset emits; the others deviate from it in one place.
Without(text, k) == SubSeq(text, 1, k - 1) \o SubSeq(text, k + 1, Len(text))
Inserted(text, k, tok) == SubSeq(text, 1, k - 1) \o <<tok>> \o SubSeq(text, k, Len(text))
Replaced(text, k, tok) == [text EXCEPT ![k] = tok]
HandValues == {<<ParamOne, ParamOne, 0, 0>>,
               <<ParamOne + ParamOne, 0, 0 - ParamOne, ParamOne>>}
Deviations(text) ==
    {text,
     \* the last field missing: 3 of 4
     SubSeq(text, 1, 9) \o <<Lit("}")>>,
     \* the first two fields in each other's place
     <<text[1], text[5], text[6], text[4], text[2], text[3]>> \o SubSeq(text, 7, 13),
     \* a field under another name
     Replaced(text, 8, Lit("\"room\":")),
     \* no opening brace, no closing brace
     Without(text, 1),
     Without(text, 13),
     \* something after the closing brace, or in its place
     text \o <<Lit("junk")>>,
     Replaced(text, 13, Lit("junk")),
     \* blanks where the format has white space, and where it has none
     Inserted(Inserted(text, 2, Blank), 6, Blank),
     Inserted(text, 4, Blank),
     \* a field that is no number
     Replaced(text, 3, Lit("true"))}
PresetTexts == UNION {Deviations(PresetText(p)) : p \in HandValues} \cup {<<>>}

HostWrites(text) ==
    /\ jsonBuffer' = text
    /\ savedParams' = <<>>
    /\ lastOp' = Op("hostWrites", 0, "-")
    /\ UNCHANGED <<engine, lastError, macros, errorRecorded, processor>>

\* Buffer sizes given to savePreset: none, one short, exact length (the
\* terminator does not fit), ample.
SaveSizes == {0, Len(PresetText(params)) - 1, Len(PresetText(params)),
              Len(PresetText(params)) + 1}
\* Values the preset player sets: the ends of the range (the constructor's
\* defaults supply values in between).
PresetParamInputs == {0, ParamOne}

PresetNext ==
    \/ \E id \in ParamIds, x \in PresetParamInputs : setParameterCall(id, x)
    \/ \E size \in SaveSizes : savePreset(size)
    \/ \E text \in PresetTexts : HostWrites(text)
    \/ LoadBuffer
    \/ FreshEngine

PresetSpec == Init /\ [][PresetNext]_vars

\* --------------------------------------------------------- parameters
\* The parameter store on its own: every id, known or not, set directly and
\* by event with values below, inside and above [0,1], and read back.
ParamNext ==
    \/ \E id \in ParamIds \cup {UnknownId}, x \in ParamInputs : setParameterCall(id, x)
    \/ \E id \in ParamIds \cup {UnknownId}, x \in ParamInputs : ParamChange(id, x)
    \/ \E id \in ParamIds \cup {UnknownId} : getParameterCall(id)
    \/ \E n \in EnvNotes, vel \in Velocities : NoteOn(n, vel)

ParamSpec == Init /\ [][ParamNext]_vars

\* ------------------------------------------------------ output buffers
\* A host that leaves anything in its buffers before process, against an
\* engine whose voices produce any signal.
OutParamIds == {"PARAM_MASTER_LEVEL", "PARAM_REVERB_MIX"}
OutNext ==
    \/ \E k \in 0..MaxBlock, nc \in Channels :
          \E outs \in {ClearedBuffers(k), FullBuffers(k)},
             synth \in {SilentSynth, UnitSynth} :
              process(outs, nc, k, synth)
    \/ \E n \in EnvNotes, vel \in Velocities : NoteOn(n, vel)
    \/ \E n \in EnvNotes : NoteOff(n)
    \/ \E id \in OutParamIds, x \in ParamInputs : setParameterCall(id, x)

OutSpec == Init /\ [][OutNext]_vars

\* A player that starts its note right after a reset, under a host that
\* calls process with cleared stereo buffers: the block after a NoteOn is the
\* first one the reverb sees since the reset.
CombNext ==
    \/ reset
    \/ \E n \in EnvNotes, vel \in Velocities : lastOp.op = "reset" /\ NoteOn(n, vel)
    \/ \E k \in 0..MaxBlock :
          process(ClearedBuffers(k), Cardinality(Channels), k, UnitSynth)
    \/ \E id \in ParamIds, x \in ParamInputs : setParameterCall(id, x)

CombSpec == Init /\ [][CombNext]_vars

\* ------------------------------------------------- plugin wrappers
\* handleEvent as a function of the voice pool: the voices and the count an
\* event of type NOTE_ON, NOTE_OFF or RESET leaves, any other type leaving
\* both as they are.
handleEventVoices(vs, event) ==
    CASE event.type = "NOTE_ON" ->
            LET k == NoteOnVoice(vs, event.note)
            IN IF k # 0
               THEN [vs EXCEPT ![k] = StartVoice(vs[k], event.note, event.velocity)]
               ELSE vs
      [] event.type = "NOTE_OFF" ->
            LET k == findVoice(vs, event.note)
            IN IF k # 0 THEN [vs EXCEPT ![k] = ReleaseVoice(vs[k])] ELSE vs
      [] event.type = "RESET" -> PanicVoices(vs)
      [] OTHER -> vs

handleEventCount(vs, count, event) ==
    CASE event.type = "NOTE_ON" -> IF isNewVoice(vs, event.note) THEN count + 1 ELSE count
      [] event.type = "RESET" -> 0
      [] OTHER -> count

\* handleEvent called for each event of a list, in order
\* (st = [voices |-> .., count |-> ..]).
RECURSIVE HandleEvents(_, _)
HandleEvents(st, events) ==
    IF events = <<>> THEN st
    ELSE HandleEvents([voices |-> handleEventVoices(st.voices, Head(events)),
                       count |-> handleEventCount(st.voices, st.count, Head(events))],
                      Tail(events))

\* MIDI messages as juce::MidiMessage classifies them: all-notes-off and
\* all-sound-off are the controller messages 123 and 120, reset-all-
\* controllers is controller 121.
MidiMessages ==
    {[kind |-> "noteOn", note |-> n, value |-> v] : n \in EnvNotes, v \in Velocities}
    \cup {[kind |-> "noteOff", note |-> n, value |-> 0] : n \in EnvNotes}
    \cup {[kind |-> "controller", note |-> c, value |-> 0] : c \in {7, 120, 121, 123}}
    \cup {[kind |-> "programChange", note |-> 0, value |-> 0]}
isController(m) == m.kind = "controller"
isAllNotesOff(m) == m.kind = "controller" /\ m.note = 123
isAllSoundOff(m) == m.kind = "controller" /\ m.note = 120
isResetAllControllers(m) == m.kind = "controller" /\ m.note = 121
\* The MIDI buffers of one block: empty, or one message.
MidiBuffers == {<<>>} \cup {<<m>> : m \in MidiMessages}

Event(type, m) == [type |-> type, note |-> m.note, velocity |-> m.value]

\* NaturePlugin::convertMIDIToEvent: the if-chain in its order.
convertMIDIToEvent(m) ==
    IF m.kind = "noteOn" THEN Event("NOTE_ON", m)
    ELSE IF m.kind = "noteOff" THEN Event("NOTE_OFF", m)
    ELSE IF m.kind = "pitchWheel" THEN Event("PITCH_BEND", m)
    ELSE IF m.kind = "channelPressure" THEN Event("CHANNEL_PRESSURE", m)
    ELSE IF isController(m) THEN Event("CONTROL_CHANGE", m)
    ELSE IF m.kind = "programChange" THEN Event("PROGRAM_CHANGE", m)
    ELSE IF isAllNotesOff(m) \/ isAllSoundOff(m) THEN Event("RESET", m)
    ELSE Event("RESET", m)

\* NaturePlugin::processMIDI: the events handed to handleEvent, every
\* message converted and the RESET events left out.
RECURSIVE processMIDI(_)
processMIDI(midi) ==
    IF midi = <<>> THEN <<>>
    ELSE LET event == convertMIDIToEvent(Head(midi))
         IN IF event.type # "RESET"
            THEN <<event>> \o processMIDI(Tail(midi))
            ELSE processMIDI(Tail(midi))

\* NaturePlugin::processBlock: clears the stereo buffer, hands the block's
\* MIDI to the core and calls process.
NaturePlugin_processBlock(midi, numSamples) ==
    /\ \E st \in {HandleEvents([voices |-> voices, count |-> activeVoiceCount],
                               processMIDI(midi))} :
          processFrom("processBlock", midi, st.voices, st.count,
                      ClearedBuffers(numSamples), Cardinality(Channels), numSamples,
                      UnitSynth)
    /\ UNCHANGED <<params, config, outer>>

PluginNext ==
    \E midi \in MidiBuffers, k \in 0..MaxBlock : NaturePlugin_processBlock(midi, k)

PluginSpec == Init /\ [][PluginNext]_vars

\* NaturePluginProcessor::processMIDI: the events pushed for handleEvent.
RECURSIVE Processor_processMIDI(_)
Processor_processMIDI(midi) ==
    IF midi = <<>> THEN <<>>
    ELSE LET m == Head(midi)
             rest == Processor_processMIDI(Tail(midi))
         IN IF m.kind = "noteOn" THEN <<Event("NOTE_ON", m)>> \o rest
            ELSE IF m.kind = "noteOff" THEN <<Event("NOTE_OFF", m)>> \o rest
            ELSE IF isAllNotesOff(m) \/ isResetAllControllers(m)
            THEN <<Event("RESET", m)>> \o rest
            ELSE IF m.kind = "pitchWheel" THEN <<Event("PITCH_BEND", m)>> \o rest
            ELSE IF m.kind = "channelPressure" THEN <<Event("CHANNEL_PRESSURE", m)>> \o rest
            ELSE rest

\* The processor's methods that take dspLock (a juce::ScopedLock at their
\* first line) and those that do not.
LockedCalls == {"prepareToPlay", "releaseResources", "processBlock"}
UnlockedCalls == {"getParameter", "setParameter"}
\* The calls each thread makes.
CallsOf(t) == IF t = "audio" THEN {"processBlock"}
              ELSE {"prepareToPlay", "releaseResources", "getParameter", "setParameter"}
\* The parameter ids the processor passes to the core.
ProcessorParamIds == {"masterVolume", "damping"}

\* A thread enters one of the processor's methods: a locked method waits
\* for dspLock and takes it, an unlocked one goes straight on to its call
\* of the core.
Enter(t, call) ==
    /\ call \in CallsOf(t)
    /\ inCore[t] = ""
    /\ IF call \in LockedCalls
       THEN dspLock = "" /\ dspLock' = t
       ELSE UNCHANGED dspLock
    /\ inCore' = [inCore EXCEPT ![t] = call]
    /\ UNCHANGED <<engine, jsonBuffer, savedParams, lastError, macros, errorRecorded,
                   lastOp>>

\* The method returns: its ScopedLock, if it has one, releases dspLock.
Leave(t, call) ==
    /\ inCore[t] = call
    /\ inCore' = [inCore EXCEPT ![t] = ""]
    /\ dspLock' = IF call \in LockedCalls THEN "" ELSE dspLock
    /\ UNCHANGED <<jsonBuffer, savedParams, lastError, macros, errorRecorded>>

\* NaturePluginProcessor::prepareToPlay, from its call of the core on.
prepareToPlay(t, sr, bs) ==
    /\ Leave(t, "prepareToPlay")
    /\ prepareEngine(sr, bs)
    /\ lastOp' = [Op("prepareToPlay", sr, IF sr <= 0 \/ bs <= 0 THEN "rejected" ELSE "ok")
                  EXCEPT !.ret = bs]

\* NaturePluginProcessor::releaseResources, from its call of the core on.
releaseResources(t) ==
    /\ Leave(t, "releaseResources")
    /\ resetEngine
    /\ lastOp' = Op("releaseResources", 0, "-")
    /\ UNCHANGED <<params, config>>

\* NaturePluginProcessor::processBlock, from its calls of the core on: the
\* events of the block's MIDI, then process on the cleared stereo buffer.
Processor_processBlock(t, midi, numSamples) ==
    /\ Leave(t, "processBlock")
    /\ \E st \in {HandleEvents([voices |-> voices, count |-> activeVoiceCount],
                               Processor_processMIDI(midi))} :
          processFrom("Processor_processBlock", midi, st.voices, st.count,
                      ClearedBuffers(numSamples), Cardinality(Channels), numSamples,
                      UnitSynth)
    /\ UNCHANGED <<params, config>>

\* NaturePluginProcessor::getParameter(index), from its call of the core on.
Processor_getParameter(t, paramId) ==
    /\ Leave(t, "getParameter")
    /\ lastOp' = [Op("Processor_getParameter", 0, paramId)
                  EXCEPT !.ret = getParameter(paramId)]
    /\ UNCHANGED engine

\* NaturePluginProcessor::setParameter(index, value), from its call of the
\* core on.
Processor_setParameter(t, paramId, value) ==
    /\ Leave(t, "setParameter")
    /\ setParameter(paramId, value)
    /\ lastOp' = [Op("Processor_setParameter", 0, paramId) EXCEPT !.ret = value]
    /\ UNCHANGED <<voices, activeVoiceCount, config, reverb>>

ProcNext ==
    \/ \E t \in Threads, call \in LockedCalls \cup UnlockedCalls : Enter(t, call)
    \/ \E t \in Threads, sr \in SampleRates, bs \in BlockSizes : prepareToPlay(t, sr, bs)
    \/ \E t \in Threads : releaseResources(t)
    \/ \E t \in Threads, midi \in MidiBuffers, k \in 0..MaxBlock :
          Processor_processBlock(t, midi, k)
    \/ \E t \in Threads, id \in ProcessorParamIds : Processor_getParameter(t, id)
    \/ \E t \in Threads, id \in ProcessorParamIds, x \in ParamInputs :
          Processor_setParameter(t, id, x)

ProcSpec == Init /\ [][ProcNext]_vars

\* ------------------------------------------------------------- FFI
\* The C wrapper of KaneMarcoFFI.cpp around one non-null instance. The synth
\* it wraps is reduced to its macro parameters; throws says whether the
\* synth call inside the try block raised a std::exception.
\* Indices a caller passes: both ends of the range and one beyond each.
MacroInputs == {0 - 1, 0, MacroCount - 1, MacroCount}
ExceptionText == "std::exception"
Recorded(msg) ==
    /\ lastError' = msg
    /\ errorRecorded' = TRUE

\* nature_set_macro whose success path clears the last error.
nature_set_macroClearsError(macroIndex, value, throws) ==
    /\ IF macroIndex < 0 \/ macroIndex >= MacroCount
       THEN /\ Recorded("Macro index out of range (0-7)")
            /\ UNCHANGED macros
            /\ lastOp' = Op("nature_set_macro", macroIndex, "false")
       ELSE IF throws
       THEN /\ Recorded(ExceptionText)
            /\ UNCHANGED macros
            /\ lastOp' = Op("nature_set_macro", macroIndex, "false")
       ELSE /\ macros' = [macros EXCEPT ![macroIndex] = clamp(value, 0, ParamOne)]
            /\ lastError' = ""
            /\ UNCHANGED errorRecorded
            /\ lastOp' = Op("nature_set_macro", macroIndex, "true")
    /\ UNCHANGED <<engine, jsonBuffer, savedParams, processor>>

nature_set_macro(macroIndex, value, throws) ==
    /\ IF macroIndex < 0 \/ macroIndex >= MacroCount
       THEN /\ Recorded("Macro index out of range (0-7)")
            /\ UNCHANGED macros
            /\ lastOp' = Op("nature_set_macro", macroIndex, "false")
       ELSE IF throws
       THEN /\ Recorded(ExceptionText)
            /\ UNCHANGED macros
            /\ lastOp' = Op("nature_set_macro", macroIndex, "false")
       ELSE /\ macros' = [macros EXCEPT ![macroIndex] = clamp(value, 0, ParamOne)]
            /\ UNCHANGED <<lastError, errorRecorded>>
            /\ lastOp' = Op("nature_set_macro", macroIndex, "true")
    /\ UNCHANGED <<engine, jsonBuffer, savedParams, processor>>

nature_get_macro(macroIndex, throws) ==
    /\ IF macroIndex < 0 \/ macroIndex >= MacroCount
       THEN /\ UNCHANGED <<lastError, errorRecorded>>
            /\ lastOp' = Op("nature_get_macro", macroIndex, "-")
       ELSE IF throws
       THEN /\ Recorded(ExceptionText)
            /\ lastOp' = Op("nature_get_macro", macroIndex, "-")
       ELSE /\ UNCHANGED <<lastError, errorRecorded>>
            /\ lastOp' = [Op("nature_get_macro", macroIndex, "-")
                          EXCEPT !.ret = macros[macroIndex]]
    /\ UNCHANGED <<engine, jsonBuffer, savedParams, macros, processor>>

\* nature_load_preset: isNull says whether jsonData is the null pointer.
nature_load_preset(isNull, throws) ==
    /\ IF isNull
       THEN /\ Recorded("JSON data is null")
            /\ lastOp' = Op("nature_load_preset", 0, "false")
       ELSE IF throws
       THEN /\ Recorded(ExceptionText)
            /\ lastOp' = Op("nature_load_preset", 0, "false")
       ELSE /\ UNCHANGED <<lastError, errorRecorded>>
            /\ lastOp' = Op("nature_load_preset", 0, "true")
    /\ UNCHANGED <<engine, jsonBuffer, savedParams, macros, processor>>

\* nature_get_last_error: the message, "NULL" for the null pointer.
nature_get_last_error ==
    /\ lastOp' = Op("nature_get_last_error", 0,
                    IF lastError # "" THEN lastError ELSE "NULL")
    /\ UNCHANGED <<engine, outer>>

nature_clear_last_error ==
    /\ lastError' = ""
    /\ errorRecorded' = FALSE
    /\ lastOp' = Op("nature_clear_last_error", 0, "-")
    /\ UNCHANGED <<engine, jsonBuffer, savedParams, macros, processor>>

FfiNext ==
    \/ \E m \in MacroInputs, x \in ParamInputs, throws \in BOOLEAN :
          nature_set_macro(m, x, throws)
    \/ \E m \in MacroInputs, throws \in BOOLEAN : nature_get_macro(m, throws)
    \/ \E isNull \in BOOLEAN, throws \in BOOLEAN : nature_load_preset(isNull, throws)
    \/ nature_get_last_error
    \/ nature_clear_last_error

FfiSpec == Init /\ [][FfiNext]_vars

\* ----------------------------------------------------------- lifecycle
\* A host that prepares with any arguments, resets and processes blocks of
\* any length while as many notes as there are voices are played.
LifecycleNotes == {60 + i : i \in VoiceIds}
LifecycleNext ==
    \/ \E sr \in PrepareInputs, bs \in PrepareInputs : prepare(sr, bs)
    \/ reset
    \/ \E k \in 0..MaxBlock : HostProcess(k)
    \/ \E n \in LifecycleNotes, vel \in Velocities : NoteOn(n, vel)
    \/ \E id \in OutParamIds, x \in SpecParamInputs : setParameterCall(id, x)

LifecycleSpec == Init /\ [][LifecycleNext]_vars

\* ------------------------------------------------------------- types
Phases == {"Idle", "Attack", "Decay", "Sustain", "Release"}

TypeOK ==
    /\ \A i \in VoiceIds : voices[i].phase \in Phases /\ voices[i].active \in BOOLEAN
    /\ activeVoiceCount \in Int

\* ------------------------------------------------------------- claims
ActiveVoices == {i \in VoiceIds : voices[i].active}
\* The voices bound to a note in the current state.
BoundTo(n) == {i \in VoiceIds : voices[i].active /\ voices[i].midiNote = n}
EngineUnchanged == UNCHANGED engine

\* C1: in every reachable state getActiveVoiceCount() equals the number of
\* voices whose active flag is true, and so lies in 0..getMaxPolyphony().
C1_CountMatchesActive ==
    /\ activeVoiceCount = Cardinality(ActiveVoices)
    /\ activeVoiceCount >= 0
    /\ activeVoiceCount <= MAX_VOICES

\* C1 witness: a NoteOn stole a voice from a full pool, the count staying at
\* the pool size.
C1_Witness ==
    /\ lastOp.op = "NoteOn"
    /\ lastOp.path = "forced"
    /\ activeVoiceCount = MAX_VOICES

\* C2: a NoteOn never fails: after handleEvent(NoteOn n), some active voice
\* is bound to n, in Attack phase with amplitude 0, also when the pool was
\* full.
C2_NoteOnNeverFails ==
    lastOp.op = "NoteOn" =>
        \E i \in VoiceIds : /\ voices[i].active
                            /\ voices[i].midiNote = lastOp.note
                            /\ voices[i].phase = "Attack"
                            /\ voices[i].amplitude = 0

\* C2 witness: the NoteOn found every voice active and none in Release, and
\* its note is playing.
C2_Witness ==
    /\ lastOp.op = "NoteOn"
    /\ lastOp.path = "forced"
    /\ BoundTo(lastOp.note) # {}
    /\ Cardinality(ActiveVoices) = MAX_VOICES

C4_Retrigger ==
    [][\A k \in VoiceIds :
          (lastOp'.op = "NoteOn" /\ k \in BoundTo(lastOp'.note)) =>
              /\ voices'[k].active
              /\ voices'[k].midiNote = lastOp'.note
              /\ voices'[k].phase = "Attack"
              /\ voices'[k].amplitude = 0
              /\ \A j \in VoiceIds \ {k} : voices'[j] = voices[j]
              /\ activeVoiceCount' = activeVoiceCount]_vars

\* C4 witness: a retrigger happened while another voice was in Release.
C4_Witness ==
    /\ lastOp.op = "NoteOn"
    /\ lastOp.path = "retrigger"
    /\ \E i \in VoiceIds : voices[i].active /\ voices[i].phase = "Release"

\* C5: NoteOff n moves the active voice bound to n to Release and changes
\* nothing else; with no active voice bound to n the engine state is
\* unchanged.
C5_NoteOffFrame ==
    [][lastOp'.op = "NoteOff" =>
          IF BoundTo(lastOp'.note) # {}
          THEN /\ \E k \in BoundTo(lastOp'.note) :
                     voices' = [voices EXCEPT ![k].phase = "Release"]
               /\ UNCHANGED <<activeVoiceCount, params, config>>
          ELSE EngineUnchanged]_vars

\* C5 witness: a NoteOff found its voice, which is now in Release and still
\* sounding.
C5_Witness ==
    /\ lastOp.op = "NoteOff"
    /\ lastOp.path = "found"
    /\ \E i \in BoundTo(lastOp.note) :
           voices[i].phase = "Release" /\ voices[i].amplitude > 0

\* C6: a Reset event or a panic() call leaves every voice inactive, Idle and
\* silent and the active count 0, within the call.
C6_ResetSilencesAll ==
    lastOp.op \in {"Reset", "panic"} =>
        /\ \A i \in VoiceIds : /\ ~voices[i].active
                               /\ voices[i].phase = "Idle"
                               /\ voices[i].amplitude = 0
        /\ activeVoiceCount = 0

\* C6 witness: a Reset event ran after every voice of the pool had been
\* played.
C6_Witness ==
    /\ lastOp.op = "Reset"
    /\ \A i \in VoiceIds : voices[i].midiNote \in Notes

\* C7: once a voice is in Release (after NoteOn n, NoteOff n) with a positive
\* release rate, if process keeps being called with non-empty blocks and no
\* other call arrives, the voice eventually is Idle and inactive; a process
\* call lowers the active count by one for each voice it frees, and never
\* frees a voice twice (a free voice stays free across process calls).
C7_ReleaseCompletes ==
    /\ \A i \in VoiceIds :
           (/\ lastOp.op = "process"
            /\ voices[i].active
            /\ voices[i].phase = "Release"
            /\ voices[i].releaseRate > 0)
           ~> (\/ ~voices[i].active /\ voices[i].phase = "Idle"
               \/ lastOp.op # "process")
    /\ [][lastOp'.op = "process" =>
             /\ activeVoiceCount' = activeVoiceCount
                    - Cardinality({i \in VoiceIds : voices[i].active /\ ~voices'[i].active})
             /\ \A i \in VoiceIds : ~voices[i].active => ~voices'[i].active]_vars

\* C7 witness: process freed the last playing voice, which had been given
\* note 60 and released; the count is back to 0.
C7_Witness ==
    /\ lastOp.op = "process"
    /\ lastOp.path = "freed"
    /\ activeVoiceCount = 0
    /\ \E i \in VoiceIds : /\ voices[i].midiNote = 60
                           /\ ~voices[i].active
                           /\ voices[i].phase = "Idle"
                           /\ voices[i].releaseRate > 0

\* C8: NoteOn assigns category and sound index by the static table:
\* [36,42) Water, [42,48) Wind, [48,54) Insect, [54,60) Amphibian, [60,66)
\* Bird, [66,72) Mammal, any other note Water with index 0; 40 gives Water 4,
\* 50 Insect 2, 65 Bird 5 and 90 Water 0.
C8_RoutingTable ==
    \A i \in VoiceIds :
        voices[i].active =>
            LET n == voices[i].midiNote
                c == voices[i].category
                x == voices[i].soundIndex
            IN /\ (n >= 36 /\ n < 42) => c = "Water"
               /\ (n >= 42 /\ n < 48) => c = "Wind"
               /\ (n >= 48 /\ n < 54) => c = "Insect"
               /\ (n >= 54 /\ n < 60) => c = "Amphibian"
               /\ (n >= 60 /\ n < 66) => c = "Bird"
               /\ (n >= 66 /\ n < 72) => c = "Mammal"
               /\ (n < 36 \/ n >= 72) => (c = "Water" /\ x = 0)
               /\ n = 40 => (c = "Water" /\ x = 4)
               /\ n = 50 => (c = "Insect" /\ x = 2)
               /\ n = 65 => (c = "Bird" /\ x = 5)
               /\ n = 90 => (c = "Water" /\ x = 0)

\* C8 witness: note 65 was just played and is routed to Bird, index 5.
C8_Witness ==
    /\ lastOp.op = "NoteOn"
    /\ lastOp.note = 65
    /\ \E i \in VoiceIds : /\ voices[i].active
                           /\ voices[i].midiNote = 65
                           /\ voices[i].category = "Bird"
                           /\ voices[i].soundIndex = 5

\* C9: the amplitude of every voice is within [0,1] in every reachable
\* state (rates >= 0, sustain level in [0,1]).
C9_AmplitudeInRange ==
    \A i \in VoiceIds : voices[i].amplitude >= 0 /\ voices[i].amplitude <= AmpOne

\* C9 witness: process took a voice through the end of Attack with a rate
\* that does not divide 1, so the last step overshot and was clamped to 1.
C9_Witness ==
    /\ lastOp.op = "process"
    /\ \E i \in VoiceIds : /\ voices[i].active
                           /\ voices[i].phase = "Decay"
                           /\ voices[i].amplitude = AmpOne
                           /\ voices[i].attackRate > 0
                           /\ AmpOne % voices[i].attackRate # 0

\* C10: after every completed call (process, handleEvent, panic, reset,
\* prepare) a voice is Idle if and only if it is inactive.
C10_IdleIffInactive ==
    lastOp.op # "construct" =>
        \A i \in VoiceIds : (voices[i].phase = "Idle") <=> ~voices[i].active

\* C10 witness: a process call ended a release and freed the voice while
\* another voice kept playing.
C10_Witness ==
    /\ lastOp.op = "process"
    /\ lastOp.path = "freed"
    /\ \E i \in VoiceIds : ~voices[i].active /\ voices[i].midiNote \in Notes
    /\ \E i \in VoiceIds : voices[i].active

\* C11: process only adds to the caller's buffers: with no active voice,
\* reverb mix 0 and master level 1, every sample is after the call what the
\* caller provided before it.
C11_ProcessAccumulates ==
    (/\ lastOp.op = "process"
     /\ lastOp.path = "-"
     /\ ActiveVoices = {}
     /\ reverbMix = 0
     /\ masterLevel = ParamOne)
        => lastOp.out = lastOp.pre

\* C12: setParameter(id, v), called directly or through a ParamChange event,
\* followed by getParameter(id) returns v clamped to [0,1], and the set
\* leaves the other three parameters as they were.
C12_SetThenGet ==
    [][/\ (/\ lastOp.op \in {"setParameter", "ParamChange"}
           /\ lastOp.path \in ParamIds
           /\ lastOp'.op = "getParameter"
           /\ lastOp'.path = lastOp.path)
              => lastOp'.ret = clamp(lastOp.ret, 0, ParamOne)
       /\ (/\ lastOp'.op \in {"setParameter", "ParamChange"}
           /\ lastOp'.path \in ParamIds)
              => /\ lastOp'.path # "PARAM_MASTER_LEVEL" => masterLevel' = masterLevel
                 /\ lastOp'.path # "PARAM_REVERB_MIX" => reverbMix' = reverbMix
                 /\ lastOp'.path # "PARAM_REVERB_ROOM_SIZE"
                        => reverbRoomSize' = reverbRoomSize
                 /\ lastOp'.path # "PARAM_REVERB_DAMPING"
                        => reverbDamping' = reverbDamping]_vars

\* C12 witness: getParameter returned 1.0 for the reverb mix, which only a
\* set with a value above 1 produces (the default is 0 and the value inside
\* the range that is set is below 1).
C12_Witness ==
    /\ lastOp.op = "getParameter"
    /\ lastOp.path = "PARAM_REVERB_MIX"
    /\ lastOp.ret = ParamOne
    /\ masterLevel = 0

\* C13: for an id that is none of the four, getParameter returns 0 and
\* setParameter or a ParamChange event changes no parameter and nothing
\* else of the engine.
C13_UnknownIdNoOp ==
    [][/\ (lastOp'.op = "getParameter" /\ lastOp'.path \notin ParamIds)
              => lastOp'.ret = 0
       /\ (/\ lastOp'.op \in {"setParameter", "ParamChange"}
           /\ lastOp'.path \notin ParamIds)
              => EngineUnchanged]_vars

\* C13 witness: a ParamChange with an unknown id arrived at an engine with a
\* sounding voice and no parameter at zero.
C13_Witness ==
    /\ lastOp.op = "ParamChange"
    /\ lastOp.path = UnknownId
    /\ activeVoiceCount > 0
    /\ \A k \in 1..4 : params[k] > 0

\* C14: each of the four parameters is within [0,1] in every reachable
\* state, whatever setParameter calls, ParamChange events and loadPreset
\* calls produced it.
C14_ParametersInRange ==
    \A k \in 1..4 : params[k] >= 0 /\ params[k] <= ParamOne

\* C15: when loadPreset returns false all four parameters keep the values
\* they had before the call.
C15_LoadAllOrNothing ==
    [][(lastOp'.op = "loadPreset" /\ lastOp'.path = "false")
          => UNCHANGED params]_vars

\* C15 witness: loadPreset rejected a text of which sscanf had converted the
\* first three fields, the first to a value the engine does not hold.
C15_Witness ==
    /\ lastOp.op = "loadPreset"
    /\ lastOp.path = "false"
    /\ Len(sscanf(jsonBuffer, LoadFormat, <<>>)) = 3
    /\ ParseFloat(sscanf(jsonBuffer, LoadFormat, <<>>)[1]) # masterLevel

\* The 4-field shape: brace, the four names in order, each with a number,
\* commas between, brace; blanks between tokens are not held against a text.
RECURSIVE NoBlanks(_)
NoBlanks(text) ==
    IF text = <<>> THEN <<>>
    ELSE IF Head(text) = Blank THEN NoBlanks(Tail(text))
    ELSE <<Head(text)>> \o NoBlanks(Tail(text))
ExactShape(text) ==
    LET t == NoBlanks(text)
    IN /\ Len(t) = 13
       /\ t[1] = Lit("{")
       /\ t[13] = Lit("}")
       /\ \A k \in 1..4 : /\ t[3 * k - 1] = Lit(FieldKeys[k])
                          /\ t[3 * k].t = "num"
       /\ \A k \in 1..3 : t[3 * k + 1] = Lit(",")

\* C16: loadPreset returns true only for a text that matches the whole
\* 4-field shape; a text that deviates from it anywhere is rejected.
C16_LoadOnlyExactShape ==
    (lastOp.op = "loadPreset" /\ lastOp.path = "true") => ExactShape(jsonBuffer)

Abs(x) == IF x < 0 THEN 0 - x ELSE x

\* C17: the text a successful savePreset produced is accepted by loadPreset
\* and gives the loading engine the four values of the saving engine, up to
\* half a unit of the sixth decimal.
C17_PresetRoundTrip ==
    [][(lastOp'.op = "loadPreset" /\ savedParams # <<>>)
          => /\ lastOp'.path = "true"
             /\ \A k \in 1..4 :
                   2 * TextOne * Abs(params[k]' - savedParams[k]) <= ParamOne]_vars

\* C17 witness: a preset saved with master level 0 and the default room size
\* was loaded and the engine holds its values.
C17_Witness ==
    /\ lastOp.op = "loadPreset"
    /\ lastOp.path = "true"
    /\ savedParams # <<>>
    /\ savedParams[1] = 0
    /\ savedParams[2] = ParamOne
    /\ savedParams[3] = ParamOne \div 2
    /\ params = savedParams

\* C18: prepare with a non-positive argument returns false and leaves the
\* whole engine as it was; with both positive it returns true and leaves
\* every voice inactive and Idle, the count 0 and the reverb cursor 0.
C18_PrepareValidates ==
    [][lastOp'.op = "prepare"
          => IF lastOp'.note <= 0 \/ lastOp'.ret <= 0
             THEN /\ lastOp'.path = "rejected"
                  /\ EngineUnchanged
             ELSE /\ lastOp'.path = "ok"
                  /\ \A i \in VoiceIds : /\ ~voices[i].active'
                                         /\ voices[i].phase' = "Idle"
                  /\ activeVoiceCount' = 0
                  /\ writeIndex' = 0]_vars

\* C18 witness: a prepare with a positive sample rate and block size 0 was
\* rejected by an engine with every voice active, the cursor off 0 and a
\* stored sample rate other than the one offered.
C18_Witness ==
    /\ lastOp.op = "prepare"
    /\ lastOp.path = "rejected"
    /\ lastOp.note > 0
    /\ lastOp.note # sampleRate
    /\ activeVoiceCount = MAX_VOICES
    /\ writeIndex # 0

\* C19: the reverb cursor lies in [0, RingSize); a process call of n samples
\* moves it to (cursor + n) mod RingSize, reset and an accepted prepare put
\* it at 0 and nothing else moves it, so it is the number of samples
\* processed since the last reset or prepare modulo RingSize, however they
\* were split into blocks.
C19_CursorCountsSamples ==
    /\ [](writeIndex >= 0 /\ writeIndex < RingSize)
    /\ [][/\ lastOp'.op = "process"
              => writeIndex' = (writeIndex + Len(lastOp'.out[1])) % RingSize
          /\ (lastOp'.op = "reset" \/ (lastOp'.op = "prepare" /\ lastOp'.path = "ok"))
              => writeIndex' = 0
          /\ ~(\/ lastOp'.op \in {"process", "reset"}
               \/ (lastOp'.op = "prepare" /\ lastOp'.path = "ok"))
              => writeIndex' = writeIndex]_vars

\* C19 witness: a block that is as long as the ring and started off 0 took
\* the cursor round to where it was.
C19_Witness ==
    /\ lastOp.op = "process"
    /\ Len(lastOp.out[1]) = RingSize
    /\ writeIndex = RingSize - 1

\* C20: nature_get_last_error returns NULL exactly when no call has recorded
\* an error since the instance was created or the error was last cleared, so
\* a recorded error stays readable across later successful calls;
\* nature_set_macro with an index outside 0..7 returns false, records an
\* error and changes no macro.
C20_LastErrorSticky ==
    [][/\ lastOp'.op = "nature_get_last_error"
              => (lastOp'.path = "NULL" <=> ~errorRecorded)
       /\ (lastOp'.op = "nature_set_macro" /\ lastOp'.note \notin MacroIds)
              => /\ lastOp'.path = "false"
                 /\ errorRecorded'
                 /\ lastError' # ""
                 /\ macros' = macros]_vars

\* C20 witness: the out-of-range message was read back on an instance whose
\* last macro was set.
C20_Witness ==
    /\ lastOp.op = "nature_get_last_error"
    /\ lastOp.path = "Macro index out of range (0-7)"
    /\ macros[MacroCount - 1] = ParamOne

\* C21: a process call of one sample moves a voice's phase only from Attack
\* to Decay, from Decay to Sustain or from Release to Idle, and leaves the
\* amplitude on the bound that was reached (1, the sustain level, 0); a
\* process call of any length leaves a voice in Sustain as it was.
C21_PhaseTransitions ==
    [][lastOp'.op = "process"
          => \A i \in VoiceIds :
                voices[i].active
                   => /\ voices[i].phase = "Sustain" => voices'[i] = voices[i]
                      /\ Len(lastOp'.out[1]) = 1
                            => \/ voices'[i].phase = voices[i].phase
                               \/ /\ voices[i].phase = "Attack"
                                  /\ voices'[i].phase = "Decay"
                                  /\ voices'[i].amplitude = AmpOne
                               \/ /\ voices[i].phase = "Decay"
                                  /\ voices'[i].phase = "Sustain"
                                  /\ voices'[i].amplitude = voices[i].sustainLevel
                               \/ /\ voices[i].phase = "Release"
                                  /\ voices'[i].phase = "Idle"
                                  /\ voices'[i].amplitude = 0]_vars

\* C21 witness: a one-sample block ended the release of a voice whose
\* sustain level is 1.0 and whose decay and release take more than one
\* sample.
C21_Witness ==
    /\ lastOp.op = "process"
    /\ lastOp.path = "freed"
    /\ Len(lastOp.out[1]) = 1
    /\ \E i \in VoiceIds : /\ voices[i].midiNote \in EnvNotes
                            /\ voices[i].phase = "Idle"
                            /\ voices[i].sustainLevel = AmpOne
                            /\ voices[i].releaseRate = 1

\* C27: in every reachable state at most one active voice is bound to any
\* given note, so the voice findVoice returns for NoteOff(n) or for a
\* retriggering NoteOn(n) is the only active voice playing n.
C27_OneVoicePerNote ==
    \A n \in AllNotes : Cardinality(BoundTo(n)) <= 1

\* C27 witness: a NoteOn retriggered its note in a full pool, and one voice
\* plays that note.
C27_Witness ==
    /\ lastOp.op = "NoteOn"
    /\ lastOp.path = "retrigger"
    /\ activeVoiceCount = MAX_VOICES
    /\ Cardinality(BoundTo(lastOp.note)) = 1

\* C24 (as stated): for every note in [36,72) the soundIndex stored by NoteOn
\* is the note minus the start of its range, the ranges being [36,48),
\* [48,60) and [60,72).
C24_IndexFromRangeStart ==
    (lastOp.op = "NoteOn" /\ lastOp.note >= 36 /\ lastOp.note < 72)
        => \A i \in BoundTo(lastOp.note) :
              voices[i].soundIndex =
                  lastOp.note - (IF lastOp.note < 48 THEN 36
                                 ELSE IF lastOp.note < 60 THEN 48 ELSE 60)

\* C24 (amended): for every note in [36,72) the soundIndex stored by NoteOn
\* is the note minus the start of the 6-note range of its category ([36,42),
\* [42,48), [48,54), [54,60), [60,66), [66,72)), a value in 0..5.
C24_IndexFromCategoryStart ==
    (lastOp.op = "NoteOn" /\ lastOp.note >= 36 /\ lastOp.note < 72)
        => /\ BoundTo(lastOp.note) # {}
           /\ \A i \in BoundTo(lastOp.note) :
                 /\ voices[i].soundIndex = (lastOp.note - 36) % 6
                 /\ voices[i].soundIndex
                        = lastOp.note - (36 + 6 * ((lastOp.note - 36) \div 6))

\* C24 witness: NoteOn of note 47, the last note of the Wind range, stored
\* soundIndex 5.
C24_Witness ==
    /\ lastOp.op = "NoteOn"
    /\ lastOp.note = 47
    /\ \E i \in BoundTo(47) : voices[i].soundIndex = 5 /\ voices[i].category = "Wind"

\* C25: every voice that process has mixed was handed to a generator of its
\* module: a soundIndex beyond the module's last sound type selects the
\* module's fallback (Rain, Breeze, Cricket, Songbird, Frog, Wolf), any other
\* the sound type of that index.
C25_SoundTypeInEnum ==
    lastOp.op = "process"
        => \A i \in VoiceIds :
              (voices[i].active /\ voices[i].amplitude > 0)
                 => LET types == SoundTypes(voices[i].category)
                        g == generateSound(voices[i])
                    IN /\ \E k \in 1..Len(types) : g = types[k]
                       /\ voices[i].soundIndex >= Len(types) => g = types[1]
                       /\ voices[i].soundIndex < Len(types)
                             => g = types[voices[i].soundIndex + 1]

\* C25 witness: process has mixed the voice of note 59, an Amphibian voice
\* of soundIndex 5, as a Frog.
C25_Witness ==
    /\ lastOp.op = "process"
    /\ \E i \in BoundTo(59) :
          /\ voices[i].amplitude > 0
          /\ voices[i].category = "Amphibian"
          /\ voices[i].soundIndex = 5
          /\ generateSound(voices[i]) = "Frog"

\* C26: a NoteOn that finds no free voice takes the oldest voice: among the
\* voices in Release the one whose NoteOn was earliest, and when none is in
\* Release the active voice whose NoteOn was earliest. (Under StealSpec the
\* earliest NoteOn is the lowest midiNote.)
C26_StealsOldest ==
    [][(lastOp'.op = "NoteOn" /\ lastOp'.path \in {"release", "forced"})
          => LET pool == IF lastOp'.path = "release"
                         THEN {i \in VoiceIds : voices[i].active /\ voices[i].phase = "Release"}
                         ELSE {i \in VoiceIds : voices[i].active}
             IN \A k \in VoiceIds :
                   voices'[k] # voices[k]
                      => /\ k \in pool
                         /\ \A i \in pool : voices[k].midiNote <= voices[i].midiNote]_vars

\* C22: the master level is the last stage of process: with master level 0
\* every sample a stereo process call leaves in the buffers is 0, whatever
\* the reverb holds.
C22_MasterLast ==
    (lastOp.op = "process" /\ masterLevel = 0 /\ lastOp.ret = Cardinality(Channels))
        => \A ch \in Channels :
              \A i \in DOMAIN lastOp.out[ch] : lastOp.out[ch][i] = 0

\* C23: comb line j reads at each sample what it wrote delayTimes[j] samples
\* earlier, and zero while fewer samples than that have been processed since
\* the reset. (Under CombSpec the process call after a NoteOn is the first
\* one since the reset.)
C23_CombReadsDelayed ==
    [][(lastOp.op = "NoteOn" /\ lastOp'.op = "process")
          => \A i \in DOMAIN lastOp'.reads :
                \A j \in CombIds :
                   lastOp'.reads[i][j] =
                       IF i > delayTimes(sampleRate)[j]
                       THEN lastOp'.writes[i - delayTimes(sampleRate)[j]][j]
                       ELSE 0]_vars

\* C28: process reads and writes no channel buffer of index >= numChannels:
\* the buffers it touches are among the first numChannels, and every other
\* buffer holds after the call what it held before.
C28_ChannelsInBounds ==
    lastOp.op = "process"
        => /\ \A ch \in lastOp.touched : ch <= lastOp.ret
           /\ \A ch \in Channels : ch > lastOp.ret => lastOp.out[ch] = lastOp.pre[ch]

\* C29: a processBlock call of the NaturePlugin wrapper whose MIDI buffer
\* ends with an all-notes-off or all-sound-off message leaves every voice
\* inactive and the active count 0.
C29_AllNotesOffResets ==
    (/\ lastOp.op = "processBlock"
     /\ lastOp.midi # <<>>
     /\ \/ isAllNotesOff(lastOp.midi[Len(lastOp.midi)])
        \/ isAllSoundOff(lastOp.midi[Len(lastOp.midi)]))
        => /\ \A i \in VoiceIds : ~voices[i].active
           /\ activeVoiceCount = 0

\* C30: NaturePluginProcessor makes every call to the core under dspLock,
\* so a getParameter or setParameter of the control thread is never inside
\* the core while processBlock is on the audio thread.
C30_CoreCallsLocked ==
    ~(/\ inCore["audio"] = "processBlock"
      /\ inCore["control"] \in {"getParameter", "setParameter"})

====
